---------------------------- MODULE Spec2Model ----------------------------
(***************************************************************************)
(* Model of helpful-code/workflow.ipynb: the notebook that drives the      *)
(* Permafrost Discovery Gateway visualization workflow.  The notebook's    *)
(* code cells are evaluated top to bottom by one kernel.  The packages     *)
(* pdgstaging and pdgraster are imported, not defined, by the notebook:    *)
(* the model records what the driver hands to them and when, and nothing   *)
(* about what they write.                                                  *)
(*                                                                         *)
(* A Python string is modelled as a sequence of tokens; "/" is a token of  *)
(* its own, so string concatenation, Path() parsing and as_posix() are     *)
(* separate computations.                                                  *)
(***************************************************************************)
EXTENDS Integers, Sequences, FiniteSets, TLC

\* number of scenes of the dataset iwp_3_files (the notebook indexes 0..2)
NumScenes == 3

\* number of scenes that also have a non-matching sidecar file (.dbf)
NumSidecars == 1

Scenes == 1..NumScenes

---------------------------------------------------------------------------
(* strings and paths *)

\* cell 2: data_dir = '/home/jcohen/testing/testing_datasets/iwp_3_files/'
data_dir ==
    <<"/", "home", "/", "jcohen", "/", "testing", "/", "testing_datasets",
      "/", "iwp_3_files", "/">>

\* cell 2: filename = '*.shp'
filename == <<"*", ".shp">>

\* pathlib.Path(s): the components of s, split at "/"; empty components
\* (doubled or trailing slashes) are dropped.  cur is the component being read.
RECURSIVE SplitAt(_, _)
SplitAt(s, cur) ==
    IF s = <<>>
    THEN IF cur = <<>> THEN <<>> ELSE <<cur>>
    ELSE IF Head(s) = "/"
         THEN (IF cur = <<>> THEN <<>> ELSE <<cur>>) \o SplitAt(Tail(s), <<>>)
         ELSE SplitAt(Tail(s), Append(cur, Head(s)))

Path(s) == SplitAt(s, <<>>)

\* PurePath.as_posix() of an absolute path: "/" before every component
RECURSIVE as_posix(_)
as_posix(p) ==
    IF p = <<>> THEN <<>> ELSE <<"/">> \o Head(p) \o as_posix(Tail(p))

IsPrefix(a, b) == Len(a) <= Len(b) /\ SubSeq(b, 1, Len(a)) = a

IsSuffix(a, b) ==
    Len(a) <= Len(b) /\ SubSeq(b, Len(b) - Len(a) + 1, Len(b)) = a

\* fnmatch of one path component against a pattern "*<suffix>"
MatchName(pattern, name) ==
    /\ pattern # <<>>
    /\ Head(pattern) = "*"
    /\ IsSuffix(Tail(pattern), name)

\* Path.glob('**/' + name_pattern) under base: the entries of the directory
\* walk that lie below base at any depth and whose last component matches,
\* in the order the walk yields them.
Glob(base, pattern, walk) ==
    LET pat == Path(pattern)
        Hit(p) == /\ IsPrefix(base, p)
                  /\ Len(p) > Len(base)
                  /\ Head(pat) = <<"**">>
                  /\ MatchName(pat[Len(pat)], p[Len(p)])
    IN  SelectSeq(walk, Hit)

---------------------------------------------------------------------------
(* the filesystem the notebook is run on *)

Stem(k) == ToString(k)

\* detections of scene k: <data_dir>/iwp/<k>/<k><ext>
IwpFile(k, ext) ==
    Path(data_dir \o <<"iwp">>) \o <<<<Stem(k)>>, <<Stem(k), ext>>>>

\* footprint of scene k: <data_dir>/footprints/<k><ext>
FpFile(k, ext) ==
    Path(data_dir \o <<"footprints">>) \o <<<<Stem(k), ext>>>>

IwpFiles ==
    {IwpFile(k, ".shp") : k \in Scenes}
        \cup {IwpFile(k, ".dbf") : k \in 1..NumSidecars}

FpFiles ==
    {FpFile(k, ".shp") : k \in Scenes}
        \cup {FpFile(k, ".dbf") : k \in 1..NumSidecars}

\* every order in which a directory walk can yield the files of S
Walks(S) ==
    {w \in [1..Cardinality(S) -> S] :
        \A i, j \in 1..Cardinality(S) : w[i] = w[j] => i = j}

\* the scene a discovered path string belongs to: the stem of its file name
SceneOf(s) == LET p == Path(s) IN Head(p[Len(p)])

---------------------------------------------------------------------------
(* the configuration *)

\* cell 8: config = {...}
ConfigLiteral ==
    [ deduplicate_clip_to_footprint |-> TRUE,
      dir_input      |-> data_dir \o <<"iwp", "/">>,
      ext_input      |-> <<".shp">>,
      ext_footprints |-> <<".shp">>,
      dir_footprints |-> data_dir \o <<"footprints", "/">>,
      dir_staged     |-> <<"staged", "/">>,
      dir_geotiff    |-> <<"geotiff", "/">>,
      dir_web_tiles  |-> <<"web_tiles", "/">>,
      filename_staging_summary      |-> <<"staging_summary", ".csv">>,
      filename_rasterization_events |-> <<"raster_events", ".csv">>,
      filename_rasters_summary      |-> <<"raster_summary", ".csv">>,
      filename_config |-> <<"config">>,
      tms_id         |-> "WGS1984Quad",
      z_range        |-> <<0, 15>>,
      geometricError |-> 57,
      z_coord        |-> 0,
      statistics     |-> << [ name |-> "iwp_coverage",
                              weight_by |-> "area",
                              property |-> "area_per_pixel_area",
                              aggregation_method |-> "sum",
                              resampling_method |-> "average",
                              val_range |-> <<0, 1>>,
                              palette |-> <<"#66339952", "#ffcc00">>,
                              nodata_val |-> 0,
                              nodata_color |-> "#ffffff00" ] >>,
      deduplicate_at         |-> <<"raster">>,
      deduplicate_keep_rules |-> << <<"Date", "larger">> >>,
      deduplicate_method     |-> "footprints" ]

\* cell 9: the argument of TileStager(config)
TileStagerArg(cfg) == cfg

RasterTilerArgStale(cfg) == [cfg EXCEPT !.dir_staged = <<"staged_old", "/">>]

\* cell 11: the argument of RasterTiler(config)
RasterTilerArg(cfg) == cfg

---------------------------------------------------------------------------
(* the cells *)

CellOrderRasterFirst ==
    <<"imports", "input", "fps", "plot0", "plot1", "plot2", "plot_adjacent",
      "config", "stager", "rasterize_all", "stage_all", "done">>

\* the code cells of the notebook, top to bottom; "done" is the end
CellOrder ==
    <<"imports", "input", "fps", "plot0", "plot1", "plot2", "plot_adjacent",
      "config", "stager", "stage_all", "rasterize_all", "done">>

Position(c) == CHOOSE i \in 1..Len(CellOrder) : CellOrder[i] = c

NextCellRasterFirst(c) ==
    LET i == CHOOSE j \in 1..Len(CellOrderRasterFirst) :
                 CellOrderRasterFirst[j] = c
    IN  CellOrderRasterFirst[i + 1]

\* the cell the kernel evaluates after cell c
NextCell(c) == CellOrder[Position(c) + 1]

\* the cell that plots pair i (0-based, as in the notebook)
PlotCell(i) == CellOrder[Position("plot0") + i]

VARIABLES
    pc,         \* the cell the kernel evaluates next
    iwpWalk,    \* order in which the walk of data_dir/iwp yields its files
    fpWalk,     \* order in which the walk of data_dir/footprints yields
    input,      \* the notebook's list input  (set by cell 2)
    fps,        \* the notebook's list fps    (set by cell 3)
    plots,      \* the (detections, footprint) pairs read by the plot cells
    config,     \* {} while the name config is unbound, else {the mapping}
    stager,     \* {} while unbound, else {the mapping TileStager was given}
    rasterizer, \* {} before cell 11, else {the mapping RasterTiler was given}
    active,     \* the external stages that have been called and not returned
    trace       \* the driver's steps so far, in order

vars == <<pc, iwpWalk, fpWalk, input, fps, plots, config, stager, rasterizer,
          active, trace>>

Init ==
    /\ pc = CellOrder[1]
    /\ iwpWalk \in Walks(IwpFiles)
    /\ fpWalk \in Walks(FpFiles)
    /\ input = <<>>
    /\ fps = <<>>
    /\ plots = <<>>
    /\ config = {}
    /\ stager = {}
    /\ rasterizer = {}
    /\ active = {}
    /\ trace = <<>>

\* cell 1: imports
Imports ==
    /\ pc = "imports"
    /\ pc' = NextCell(pc)
    /\ UNCHANGED <<iwpWalk, fpWalk, input, fps, plots, config, stager,
                   rasterizer, active, trace>>

\* cell 2: input = [p.as_posix() for p in base_dir.glob('**/' + filename)]
DiscoverInput ==
    /\ pc = "input"
    /\ LET base_dir == Path(data_dir \o <<"iwp">>)
           found == Glob(base_dir, <<"**", "/">> \o filename, iwpWalk)
       IN  input' = [i \in 1..Len(found) |-> as_posix(found[i])]
    /\ trace' = Append(trace, "discover_input")
    /\ pc' = NextCell(pc)
    /\ UNCHANGED <<iwpWalk, fpWalk, fps, plots, config, stager, rasterizer,
                   active>>

\* cell 3: fps = [p.as_posix() for p in base_dir_fp.glob('**/' + filename)]
DiscoverFootprints ==
    /\ pc = "fps"
    /\ LET base_dir_fp == Path(data_dir \o <<"footprints">>)
           found == Glob(base_dir_fp, <<"**", "/">> \o filename, fpWalk)
       IN  fps' = [i \in 1..Len(found) |-> as_posix(found[i])]
    /\ trace' = Append(trace, "discover_fps")
    /\ pc' = NextCell(pc)
    /\ UNCHANGED <<iwpWalk, fpWalk, input, plots, config, stager, rasterizer,
                   active>>

\* cells 4-6: shp = gpd.read_file(input[i]); footprint = gpd.read_file(fps[i])
\* (an index past the end of either list raises and the cell does not finish)
PlotPair ==
    \E i \in 0..(NumScenes - 1) :
        /\ pc = PlotCell(i)
        /\ i + 1 <= Len(input)
        /\ i + 1 <= Len(fps)
        /\ plots' = Append(plots, [shp |-> input[i + 1],
                                   footprint |-> fps[i + 1]])
        /\ pc' = NextCell(pc)
        /\ UNCHANGED <<iwpWalk, fpWalk, input, fps, config, stager,
                       rasterizer, active, trace>>

\* cell 7: shp1 = gpd.read_file(input[1]); shp2 = gpd.read_file(input[2])
PlotAdjacent ==
    /\ pc = "plot_adjacent"
    /\ Len(input) >= 3
    /\ pc' = NextCell(pc)
    /\ UNCHANGED <<iwpWalk, fpWalk, input, fps, plots, config, stager,
                   rasterizer, active, trace>>

\* cell 8: config = {...}
DefineConfig ==
    /\ pc = "config"
    /\ config' = {ConfigLiteral}
    /\ trace' = Append(trace, "config")
    /\ pc' = NextCell(pc)
    /\ UNCHANGED <<iwpWalk, fpWalk, input, fps, plots, stager, rasterizer,
                   active>>

\* cell 9: stager = TileStager(config)   (NameError while config is unbound)
ConstructStager ==
    /\ pc = "stager"
    /\ config # {}
    /\ stager' = {TileStagerArg(c) : c \in config}
    /\ trace' = Append(trace, "TileStager")
    /\ pc' = NextCell(pc)
    /\ UNCHANGED <<iwpWalk, fpWalk, input, fps, plots, config, rasterizer,
                   active>>

\* cell 10, entry: stager.stage_all() is called
StageAllCall ==
    /\ pc = "stage_all"
    /\ stager # {}
    /\ "stage_all" \notin active
    /\ "stage_all:call" \notin {trace[i] : i \in 1..Len(trace)}
    /\ active' = active \cup {"stage_all"}
    /\ trace' = Append(trace, "stage_all:call")
    /\ UNCHANGED <<pc, iwpWalk, fpWalk, input, fps, plots, config, stager,
                   rasterizer>>

\* cell 10, exit: stage_all() returns and the cell finishes
StageAllReturn ==
    /\ pc = "stage_all"
    /\ "stage_all" \in active
    /\ active' = active \ {"stage_all"}
    /\ trace' = Append(trace, "stage_all:return")
    /\ pc' = NextCell(pc)
    /\ UNCHANGED <<iwpWalk, fpWalk, input, fps, plots, config, stager,
                   rasterizer>>

\* cell 11, entry: RasterTiler(config) is built and rasterize_all() called
RasterizeAllCall ==
    /\ pc = "rasterize_all"
    /\ config # {}
    /\ "rasterize_all" \notin active
    /\ "rasterize_all:call" \notin {trace[i] : i \in 1..Len(trace)}
    /\ rasterizer' = {RasterTilerArg(c) : c \in config}
    /\ active' = active \cup {"rasterize_all"}
    /\ trace' = trace \o <<"RasterTiler", "rasterize_all:call">>
    /\ UNCHANGED <<pc, iwpWalk, fpWalk, input, fps, plots, config, stager>>

\* cell 11, exit: rasterize_all() returns and the cell finishes
RasterizeAllReturn ==
    /\ pc = "rasterize_all"
    /\ "rasterize_all" \in active
    /\ active' = active \ {"rasterize_all"}
    /\ trace' = Append(trace, "rasterize_all:return")
    /\ pc' = NextCell(pc)
    /\ UNCHANGED <<iwpWalk, fpWalk, input, fps, plots, config, stager,
                   rasterizer>>

Next ==
    \/ Imports
    \/ DiscoverInput
    \/ DiscoverFootprints
    \/ PlotPair
    \/ PlotAdjacent
    \/ DefineConfig
    \/ ConstructStager
    \/ StageAllCall
    \/ StageAllReturn
    \/ RasterizeAllCall
    \/ RasterizeAllReturn

Spec == Init /\ [][Next]_vars

---------------------------------------------------------------------------
(* properties *)

\* the driver's steps, in the one order the notebook allows
DriverSteps ==
    <<"discover_input", "discover_fps", "config", "TileStager",
      "stage_all:call", "stage_all:return",
      "RasterTiler", "rasterize_all:call", "rasterize_all:return">>

Done == pc = "done"

\* C1: in every run the steps happen in one fixed order with no overlap:
\* input discovery, construction of the config, TileStager(config) and
\* stage_all(), then RasterTiler(config) and rasterize_all().  What has
\* happened so far is always an initial part of that order (so
\* rasterize_all is not called before stage_all has returned), and at most
\* one stage is active, and only between its call and its return.
StepsInFixedOrder ==
    /\ IsPrefix(trace, DriverSteps)
    /\ Cardinality(active) <= 1
    /\ ("stage_all" \in active
            <=> trace # <<>> /\ trace[Len(trace)] = "stage_all:call")
    /\ ("rasterize_all" \in active
            <=> trace # <<>> /\ trace[Len(trace)] = "rasterize_all:call")
    /\ (Done => trace = DriverSteps)

\* C1 witness: a finished run in which both stages ran and returned
BothStagesRan ==
    /\ Done
    /\ trace = DriverSteps
    /\ active = {}

Discovered == Position(pc) > Position("fps")

\* C9: for every index i in 0..2, input[i] and fps[i] are the detection
\* file and the footprint file of the same scene, whatever order the two
\* directory walks yield their files in: both lists hold at least 3 paths,
\* corresponding paths sit at the same index, and so every pair the plot
\* cells read is a detection file with its own footprint.
InputFpsCorrespond ==
    /\ Discovered =>
          /\ Len(input) >= 3
          /\ Len(fps) >= 3
          /\ \A i \in 1..3 : SceneOf(input[i]) = SceneOf(fps[i])
    /\ \A n \in 1..Len(plots) :
          SceneOf(plots[n].shp) = SceneOf(plots[n].footprint)

=============================================================================
